---- MODULE Spec2Model ----
(***************************************************************************)
(* A model of mdslackcli (src/src/main.rs): the credential flow of one     *)
(* process invocation (init, ensure_token and the command handlers that    *)
(* use them) over a keyring entry, a masked prompt and the Slack HTTP API, *)
(* and the two response decoders auth_test and slack_post.                 *)
(*                                                                         *)
(* Strings that the program trims are sequences of characters, so that     *)
(* trim is computed and not assumed.  Other strings (error codes, team     *)
(* names) are opaque and are TLA+ strings.                                 *)
(***************************************************************************)
EXTENDS Integers, Sequences, FiniteSets, TLC

(***************************************************************************)
(* Bounds of the model.                                                    *)
(***************************************************************************)
\* Most whitespace characters before, and after, the text of a raw string
\* (environment value, keyring secret, prompt input, --token argument).
MaxPad == 1

\* The texts of raw strings: two tokens, one with whitespace inside.
Tokens == {<<"a">>, <<"b", " ", "c">>}

RECURSIVE Pad(_)
Pad(n) == IF n = 0 THEN <<>> ELSE <<" ">> \o Pad(n - 1)

\* The raw strings: blank ones, and the tokens with whitespace around them.
Strs ==
    {Pad(i) : i \in 0..MaxPad}
    \cup {Pad(i) \o t \o Pad(j) : t \in Tokens, i \in 0..MaxPad, j \in 0..MaxPad}

(***************************************************************************)
(* str::trim and str::is_empty                                             *)
(***************************************************************************)
IsWhite(c) == c = " "

RECURSIVE TrimStart(_)
TrimStart(s) ==
    IF s = <<>> THEN <<>>
    ELSE IF IsWhite(Head(s)) THEN TrimStart(Tail(s))
    ELSE s

RECURSIVE TrimEnd(_)
TrimEnd(s) ==
    IF s = <<>> THEN <<>>
    ELSE IF IsWhite(s[Len(s)]) THEN TrimEnd(SubSeq(s, 1, Len(s) - 1))
    ELSE s

trim(s) == TrimEnd(TrimStart(s))

is_empty(s) == Len(s) = 0

(***************************************************************************)
(* Option<String>                                                          *)
(***************************************************************************)
None == [some |-> FALSE, v |-> ""]
Some(s) == [some |-> TRUE, v |-> s]

(***************************************************************************)
(* JSON values of the fields the program inspects.  t is the JSON type of  *)
(* the field ("absent" when the object has no such key); v is the text of  *)
(* a string value and the literal of a boolean.                            *)
(***************************************************************************)
JAbsent == [t |-> "absent", v |-> ""]
JNull == [t |-> "null", v |-> ""]
JTrue == [t |-> "bool", v |-> "true"]
JFalse == [t |-> "bool", v |-> "false"]
JNum == [t |-> "num", v |-> "1"]
JStr(s) == [t |-> "str", v |-> s]

\* serde_json::Value::as_bool and as_str, applied to the result of Value::get
as_bool(j) == IF j.t = "bool" THEN Some(j.v) ELSE None
as_str(j) == IF j.t = "str" THEN Some(j.v) ELSE None
unwrap_or(o, d) == IF o.some THEN o.v ELSE d

ErrCodes == {"channel_not_found"}
OkVals == {JAbsent, JNull, JTrue, JFalse, JNum, JStr("true")}
ErrorVals == {JAbsent, JNull, JNum} \cup {JStr(e) : e \in ErrCodes}
TeamVals == {JAbsent, JNull, JNum, JStr("Acme Co")}
TeamIdVals == {JAbsent, JNull, JNum, JStr("T123")}
UserIdVals == {JAbsent, JNull, JNum, JStr("U234")}
BotIdVals == {JAbsent, JNull, JNum, JStr("B345")}

(***************************************************************************)
(* Response bodies: text that is no JSON, the JSON array [], or a JSON     *)
(* object with any combination of the inspected keys.                      *)
(***************************************************************************)
ObjectBodies ==
    [kind : {"object"}, ok : OkVals, error : ErrorVals, team : TeamVals,
     team_id : TeamIdVals, user_id : UserIdVals, bot_id : BotIdVals]

NonObject(k) ==
    [kind |-> k, ok |-> JAbsent, error |-> JAbsent, team |-> JAbsent,
     team_id |-> JAbsent, user_id |-> JAbsent, bot_id |-> JAbsent]

TextBody == NonObject("text")
ArrayBody == NonObject("array")
NoBody == NonObject("none")

Bodies == ObjectBodies \cup {TextBody, ArrayBody}

IsJson(b) == b.kind \in {"object", "array"}

\* serde_json::Value::get(key): None unless the value is an object with the key
get(b, key) ==
    IF b.kind # "object" THEN JAbsent
    ELSE CASE key = "ok" -> b.ok
           [] key = "error" -> b.error
           [] key = "team" -> b.team
           [] key = "team_id" -> b.team_id
           [] key = "user_id" -> b.user_id
           [] key = "bot_id" -> b.bot_id

(***************************************************************************)
(* HTTP responses.  net says how far the exchange got: "send_fail" (no     *)
(* response), "read_fail" (status line received, body unreadable) or "ok". *)
(***************************************************************************)
Statuses == {200, 204, 404, 500}

is_success(st) == st >= 200 /\ st < 300

Responses ==
    [net : {"ok"}, status : Statuses, body : Bodies]
    \cup [net : {"read_fail"}, status : Statuses, body : {NoBody}]
    \cup [net : {"send_fail"}, status : {200}, body : {NoBody}]

(***************************************************************************)
(* Results of the two decoders.                                            *)
(***************************************************************************)
CallErr(k, st, b, c) ==
    [res |-> "err", kind |-> k, status |-> st, body |-> b, code |-> c]

(***************************************************************************)
(* struct AuthTest and its derived Deserialize: ok is a required bool,     *)
(* the other five fields are Option<String> (absent or null gives None).   *)
(***************************************************************************)
OptFieldDecodes(j) == j.t \in {"absent", "null", "str"}
OptField(j) == IF j.t = "str" THEN Some(j.v) ELSE None

\* the decoder with #[serde(default)] on ok
AuthTestDecodes_default_ok(b) ==
    /\ b.kind = "object"
    /\ b.ok.t \in {"bool", "absent"}
    /\ \A k \in {"team", "team_id", "user_id", "bot_id", "error"} :
          OptFieldDecodes(get(b, k))

AuthTestDecodes(b) ==
    /\ b.kind = "object"
    /\ b.ok.t = "bool"
    /\ \A k \in {"team", "team_id", "user_id", "bot_id", "error"} :
          OptFieldDecodes(get(b, k))

AuthTest(b) ==
    [ok |-> b.ok.v = "true",
     team |-> OptField(b.team),
     team_id |-> OptField(b.team_id),
     user_id |-> OptField(b.user_id),
     bot_id |-> OptField(b.bot_id),
     error |-> OptField(b.error)]

auth_test(r) ==
    IF r.net = "send_fail" THEN CallErr("transport", 0, NoBody, "")
    ELSE IF r.net = "read_fail" THEN CallErr("transport", 0, NoBody, "")
    ELSE IF ~is_success(r.status) THEN CallErr("http", r.status, r.body, "")
    ELSE IF ~AuthTestDecodes(r.body) THEN CallErr("decode", 0, NoBody, "")
    ELSE [res |-> "ok", val |-> AuthTest(r.body)]

\* slack_post with a missing `ok` taken for success
slack_post_ok_default(r) ==
    IF r.net = "send_fail" THEN CallErr("transport", 0, NoBody, "")
    ELSE IF r.net = "read_fail" \/ ~IsJson(r.body)
         THEN CallErr("decode", 0, NoBody, "")
    ELSE IF ~is_success(r.status) THEN CallErr("http", r.status, NoBody, "")
    ELSE IF unwrap_or(as_bool(get(r.body, "ok")), "true") # "true"
         THEN CallErr("api", 0, NoBody,
                      unwrap_or(as_str(get(r.body, "error")), "unknown_error"))
    ELSE [res |-> "ok", val |-> r.body]

slack_post(r) ==
    IF r.net = "send_fail" THEN CallErr("transport", 0, NoBody, "")
    ELSE IF r.net = "read_fail" \/ ~IsJson(r.body)
         THEN CallErr("decode", 0, NoBody, "")
    ELSE IF ~is_success(r.status) THEN CallErr("http", r.status, NoBody, "")
    ELSE IF unwrap_or(as_bool(get(r.body, "ok")), "false") # "true"
         THEN CallErr("api", 0, NoBody,
                      unwrap_or(as_str(get(r.body, "error")), "unknown_error"))
    ELSE [res |-> "ok", val |-> r.body]

(***************************************************************************)
(* What the credential flow keeps of a decoder's result: an error's kind,  *)
(* status and code, and of an AuthTest the fields the flow reads (ok and   *)
(* error; team is only printed).                                           *)
(***************************************************************************)
AuthBrief(o) ==
    IF o.res = "err"
    THEN [res |-> "err", kind |-> o.kind, status |-> o.status, code |-> o.code,
          ok |-> FALSE, error |-> None]
    ELSE [res |-> "ok", kind |-> "", status |-> 0, code |-> "",
          ok |-> o.val.ok, error |-> o.val.error]

PostBrief(o) ==
    IF o.res = "err"
    THEN [res |-> "err", kind |-> o.kind, status |-> o.status, code |-> o.code,
          okv |-> JAbsent, error |-> JAbsent]
    ELSE [res |-> "ok", kind |-> "", status |-> 0, code |-> "",
          okv |-> get(o.val, "ok"), error |-> get(o.val, "error")]

NoInfo ==
    [res |-> "none", kind |-> "", status |-> 0, code |-> "",
     ok |-> FALSE, error |-> None]

AuthOutcomes == {AuthBrief(auth_test(r)) : r \in Responses}
PostOutcomes == {PostBrief(slack_post(r)) : r \in Responses}

(***************************************************************************)
(* The state of one process invocation.                                    *)
(***************************************************************************)
VARIABLES
    cmd,        \* the parsed command line: name and InitArgs
    env,        \* the SLACK_TOKEN environment variable
    store,      \* the keyring entry slackcli_user/token
    pc,         \* the position of the program
    tok,        \* the local variable token / tok of the running function
    attempts,   \* iterations of init's prompt loop that have completed
    step,       \* calls of the handler's plan that have completed
    ens,        \* what ensure_token returned to its caller
    info,       \* the AuthTest (or call error) that decided main's result
    trace,      \* the external operations performed so far, in order
    result,     \* what main returns
    resp,       \* input of a function run on its own (an HTTP response, ..)
    api,        \* the function applied to resp, "none" before
    out         \* its output

flowVars == <<cmd, env, store, pc, tok, attempts, step, ens, info, trace, result>>
protoVars == <<resp, api, out>>
vars ==
    <<cmd, env, store, pc, tok, attempts, step, ens, info, trace, result,
      resp, api, out>>

\* for _ in 0..3
MaxAttempts == 3

NoArg == [some |-> FALSE, v |-> <<>>]
Arg(s) == [some |-> TRUE, v |-> s]

\* InitArgs {reset, force, token}; text is OpenArgs.text.is_some()
InitCmds ==
    [name : {"init"}, reset : BOOLEAN, force : BOOLEAN,
     token : {NoArg} \cup {Arg(s) : s \in Strs}, text : {FALSE}]

Handler(n, t) ==
    [name |-> n, reset |-> FALSE, force |-> FALSE, token |-> NoArg, text |-> t]

HandlerNames ==
    {"whoami", "join", "directmsgs", "directmpmsgs", "findperson", "open",
     "channels", "msgs", "send"}

Cmds ==
    InitCmds \cup {Handler(n, FALSE) : n \in HandlerNames}
             \cup {Handler("open", TRUE)}

\* std::env::var("SLACK_TOKEN"): Err when unset
EnvVals == {NoArg} \cup {Arg(s) : s \in Strs}

\* the keyring entry: absent (keyring::Error::NoEntry) or a secret
NoEntry == [present |-> FALSE, v |-> <<>>]
Secret(s) == [present |-> TRUE, v |-> s]
StoreVals == {NoEntry} \cup {Secret(s) : s \in Strs}

(***************************************************************************)
(* Results of main (anyhow::Result<()>).                                   *)
(***************************************************************************)
Running == [ok |-> FALSE, kind |-> "running", code |-> "", status |-> 0]
Ok(msg) == [ok |-> TRUE, kind |-> "ok", code |-> msg, status |-> 0]
Err(kind, code, status) ==
    [ok |-> FALSE, kind |-> kind, code |-> code, status |-> status]
ErrOf(o) == Err(o.kind, o.code, o.status)

\* one external operation: op at call site `at`, on token t, with outcome res
E(op, at, t, res) == [op |-> op, at |-> at, tok |-> t, res |-> res]

NotReturned == [st |-> "none", tok |-> <<>>, src |-> "", err |-> Running]
Returned(t, src) == [st |-> "ok", tok |-> t, src |-> src, err |-> Running]
Failed(e) == [st |-> "err", tok |-> <<>>, src |-> "", err |-> e]

(***************************************************************************)
(* Keyring helpers.  avail says whether the keyring call succeeds.         *)
(***************************************************************************)
\* read_token returning the trimmed secret
read_token_trimmed(st, avail) ==
    IF ~avail THEN [ok |-> FALSE, val |-> NoArg]
    ELSE IF ~st.present THEN [ok |-> TRUE, val |-> NoArg]
    ELSE IF is_empty(trim(st.v)) THEN [ok |-> TRUE, val |-> NoArg]
    ELSE [ok |-> TRUE, val |-> Arg(trim(st.v))]

\* read_token without the blank check of line 644
read_token_unchecked(st, avail) ==
    IF ~avail THEN [ok |-> FALSE, val |-> NoArg]
    ELSE IF ~st.present THEN [ok |-> TRUE, val |-> NoArg]
    ELSE [ok |-> TRUE, val |-> Arg(st.v)]

read_token(st, avail) ==
    IF ~avail THEN [ok |-> FALSE, val |-> NoArg]
    ELSE IF ~st.present THEN [ok |-> TRUE, val |-> NoArg]
    ELSE IF is_empty(trim(st.v)) THEN [ok |-> TRUE, val |-> NoArg]
    ELSE [ok |-> TRUE, val |-> Arg(st.v)]

\* store_token that reports success without writing
store_token_skipped(st, token, avail) == st

store_token(st, token, avail) == IF avail THEN Secret(token) ELSE st

delete_token(st, avail) == IF avail THEN Secret(<<>>) ELSE st

(***************************************************************************)
(* prompt_for_token: the masked prompt yields a line or fails to read.     *)
(***************************************************************************)
PromptInputs == {[io |-> FALSE, v |-> <<>>]} \cup [io : {TRUE}, v : Strs]

prompt_for_token(inp) ==
    IF ~inp.io THEN [ok |-> FALSE, tok |-> <<>>, kind |-> "io"]
    ELSE IF is_empty(trim(inp.v)) THEN [ok |-> FALSE, tok |-> <<>>, kind |-> "empty"]
    ELSE [ok |-> TRUE, tok |-> trim(inp.v), kind |-> "ok"]

\* the override returning the untrimmed value
env_override_raw(e) ==
    IF e.some /\ ~is_empty(trim(e.v)) THEN Arg(e.v) ELSE NoArg

\* the SLACK_TOKEN override of ensure_token: Some(trimmed) when it applies
env_override(e) ==
    IF e.some /\ ~is_empty(trim(e.v)) THEN Arg(trim(e.v)) ELSE NoArg

\* the sentinel of slack_post used for a rejected token
invalid_error_unknown(i) == Err("api", unwrap_or(i.error, "unknown_error"), 0)

\* Err(anyhow!(info.error.unwrap_or_else(|| "invalid_auth".into())))
invalid_error(i) == Err("api", unwrap_or(i.error, "invalid_auth"), 0)

AuthRes(o) == IF o.res = "err" THEN "callerr" ELSE IF o.ok THEN "valid" ELSE "invalid"

(***************************************************************************)
(* The initial states: any command line, environment and keyring content;  *)
(* nothing has run.                                                        *)
(***************************************************************************)
FlowInit ==
    /\ cmd \in Cmds
    /\ env \in EnvVals
    /\ store \in StoreVals
    /\ pc = "main"
    /\ tok = <<>>
    /\ attempts = 0
    /\ step = 0
    /\ ens = NotReturned
    /\ info = NoInfo
    /\ trace = <<>>
    /\ result = Running

ProtoIdle ==
    /\ resp = [net |-> "send_fail", status |-> 200, body |-> NoBody]
    /\ api = "none"
    /\ out = [res |-> "none"]

Init == FlowInit /\ ProtoIdle

(***************************************************************************)
(* main: match cli.command                                                 *)
(***************************************************************************)
\* the force-set branch taken for --force only
init_branch_force_only(args) ==
    IF args.force
    THEN IF args.token.some THEN "force.store" ELSE "force.prompt"
    ELSE "ensure.env"

\* init after the optional reset: the force-set branch or ensure_token
init_branch(args) ==
    IF args.force \/ args.token.some
    THEN IF args.token.some THEN "force.store" ELSE "force.prompt"
    ELSE "ensure.env"

Main ==
    /\ pc = "main"
    /\ pc' = IF cmd.name = "init"
             THEN IF cmd.reset THEN "init.reset" ELSE init_branch(cmd)
             ELSE "ensure.env"
    /\ tok' = IF cmd.name = "init" /\ cmd.token.some THEN cmd.token.v ELSE tok
    /\ UNCHANGED <<cmd, env, store, attempts, step, ens, info, trace, result,
                   protoVars>>

(***************************************************************************)
(* init                                                                    *)
(***************************************************************************)
\* if args.reset { let _ = delete_token(); }
InitReset ==
    /\ pc = "init.reset"
    /\ \E avail \in BOOLEAN :
          /\ store' = delete_token(store, avail)
          /\ trace' = Append(trace, E("reset", "init", <<>>,
                                      IF avail THEN "ok" ELSE "fail"))
    /\ pc' = init_branch(cmd)
    /\ UNCHANGED <<cmd, env, tok, attempts, step, ens, info, result, protoVars>>

\* None => prompt_for_token()?
ForcePrompt ==
    /\ pc = "force.prompt"
    /\ \E inp \in PromptInputs :
          LET r == prompt_for_token(inp) IN
          /\ trace' = Append(trace, E("prompt", "force", r.tok, r.kind))
          /\ tok' = r.tok
          /\ pc' = IF r.ok THEN "force.store" ELSE "done"
          /\ result' = IF r.ok THEN result ELSE Err(r.kind, "", 0)
    /\ UNCHANGED <<cmd, env, store, attempts, step, ens, info, protoVars>>

\* store_token(&token)?
ForceStore ==
    /\ pc = "force.store"
    /\ \E avail \in BOOLEAN :
          /\ store' = store_token(store, tok, avail)
          /\ trace' = Append(trace, E("write", "force", tok,
                                      IF avail THEN "ok" ELSE "fail"))
          /\ pc' = IF avail THEN "force.auth" ELSE "done"
          /\ result' = IF avail THEN result ELSE Err("store", "write", 0)
    /\ UNCHANGED <<cmd, env, tok, attempts, step, ens, info, protoVars>>

\* what init's force-set branch returns for the outcome of auth_test
force_result(o) ==
    IF o.res = "err" THEN ErrOf(o)
    ELSE IF o.ok THEN Ok("Saved valid token")
    ELSE invalid_error(o)

ForceAuth ==
    /\ pc = "force.auth"
    /\ \E o \in AuthOutcomes :
          /\ trace' = Append(trace, E("auth", "force", tok, AuthRes(o)))
          /\ result' = force_result(o)
          /\ info' = o
    /\ pc' = "done"
    /\ UNCHANGED <<cmd, env, store, tok, attempts, step, ens, protoVars>>

(***************************************************************************)
(* The caller of ensure_token: init matches on the result, every command   *)
(* handler applies `?`.  r is ensure_token's result (Returned or Failed).  *)
(***************************************************************************)
handler_call(name) == IF name = "whoami" THEN "whoami.auth" ELSE "handler.post"

init_on_ensure(r) ==
    IF r.st = "ok"
    THEN [pc |-> "done", result |-> Ok("Token is present and valid.")]
    ELSE [pc |-> "loop.prompt", result |-> Running]

handler_on_ensure(name, r) ==
    IF r.st = "ok"
    THEN [pc |-> handler_call(name), result |-> Running]
    ELSE [pc |-> "done", result |-> r.err]

on_ensure(r) ==
    IF cmd.name = "init" THEN init_on_ensure(r) ELSE handler_on_ensure(cmd.name, r)

\* ensure_token returns r to its caller; o is the auth_test outcome behind r
Return(r, o) ==
    /\ ens' = r
    /\ pc' = on_ensure(r).pc
    /\ result' = on_ensure(r).result
    /\ info' = IF on_ensure(r).pc = "done" THEN o ELSE info

(***************************************************************************)
(* ensure_token                                                            *)
(***************************************************************************)
EnsureEnv ==
    /\ pc = "ensure.env"
    /\ LET o == env_override(env) IN
       IF o.some
       THEN /\ tok' = o.v
            /\ Return(Returned(o.v, "env"), NoInfo)
       ELSE /\ pc' = "ensure.read"
            /\ UNCHANGED <<tok, ens, info, result>>
    /\ UNCHANGED <<cmd, env, store, attempts, step, trace, protoVars>>

\* if let Some(tok) = read_token()?
EnsureRead ==
    /\ pc = "ensure.read"
    /\ \E avail \in BOOLEAN :
          LET r == read_token(store, avail) IN
          /\ trace' = Append(trace, E("read", "ensure", r.val.v,
                                IF ~r.ok THEN "fail"
                                ELSE IF r.val.some THEN "some" ELSE "none"))
          /\ IF ~r.ok
             THEN Return(Failed(Err("store", "read", 0)), NoInfo) /\ UNCHANGED tok
             ELSE /\ pc' = IF r.val.some THEN "ensure.stored" ELSE "ensure.prompt"
                  /\ tok' = r.val.v
                  /\ UNCHANGED <<ens, info, result>>
    /\ UNCHANGED <<cmd, env, store, attempts, step, protoVars>>

\* let info = auth_test(&client, &tok)?; if info.ok { return Ok(tok); }
EnsureStoredAuth ==
    /\ pc = "ensure.stored"
    /\ \E o \in AuthOutcomes :
          /\ trace' = Append(trace, E("auth", "ensure.stored", tok, AuthRes(o)))
          /\ IF o.res = "err" THEN Return(Failed(ErrOf(o)), o)
             ELSE IF o.ok THEN Return(Returned(tok, "stored"), o)
             ELSE /\ pc' = "ensure.prompt"
                  /\ UNCHANGED <<ens, info, result>>
    /\ UNCHANGED <<cmd, env, store, tok, attempts, step, protoVars>>

\* let token = prompt_for_token()?;
EnsurePrompt ==
    /\ pc = "ensure.prompt"
    /\ \E inp \in PromptInputs :
          LET r == prompt_for_token(inp) IN
          /\ trace' = Append(trace, E("prompt", "ensure", r.tok, r.kind))
          /\ tok' = r.tok
          /\ IF r.ok
             THEN pc' = "ensure.store" /\ UNCHANGED <<ens, info, result>>
             ELSE Return(Failed(Err(r.kind, "", 0)), NoInfo)
    /\ UNCHANGED <<cmd, env, store, attempts, step, protoVars>>

\* let _ = store_token(&token): a failed write does not end ensure_token
EnsureStore_ignore_error ==
    /\ pc = "ensure.store"
    /\ \E avail \in BOOLEAN :
          /\ store' = store_token(store, tok, avail)
          /\ trace' = Append(trace, E("write", "ensure", tok,
                                      IF avail THEN "ok" ELSE "fail"))
    /\ pc' = "ensure.auth"
    /\ UNCHANGED <<cmd, env, tok, attempts, step, ens, info, result, protoVars>>

\* store_token(&token)?;
EnsureStore ==
    /\ pc = "ensure.store"
    /\ \E avail \in BOOLEAN :
          /\ store' = store_token(store, tok, avail)
          /\ trace' = Append(trace, E("write", "ensure", tok,
                                      IF avail THEN "ok" ELSE "fail"))
          /\ IF avail
             THEN pc' = "ensure.auth" /\ UNCHANGED <<ens, info, result>>
             ELSE Return(Failed(Err("store", "write", 0)), NoInfo)
    /\ UNCHANGED <<cmd, env, tok, attempts, step, protoVars>>

\* ensure_token asking again when the entered token is rejected
EnsureAuth_retry ==
    /\ pc = "ensure.auth"
    /\ \E o \in AuthOutcomes :
          /\ trace' = Append(trace, E("auth", "ensure.entered", tok, AuthRes(o)))
          /\ IF o.res = "err" THEN Return(Failed(ErrOf(o)), o)
             ELSE IF o.ok THEN Return(Returned(tok, "entered"), o)
             ELSE /\ pc' = "ensure.prompt"
                  /\ UNCHANGED <<ens, info, result>>
    /\ UNCHANGED <<cmd, env, store, tok, attempts, step, protoVars>>

\* let info = auth_test(&client, &token)?; if info.ok { Ok(token) } else { Err(..) }
EnsureAuth ==
    /\ pc = "ensure.auth"
    /\ \E o \in AuthOutcomes :
          /\ trace' = Append(trace, E("auth", "ensure.entered", tok, AuthRes(o)))
          /\ IF o.res = "err" THEN Return(Failed(ErrOf(o)), o)
             ELSE IF o.ok THEN Return(Returned(tok, "entered"), o)
             ELSE Return(Failed(invalid_error(o)), o)
    /\ UNCHANGED <<cmd, env, store, tok, attempts, step, protoVars>>

(***************************************************************************)
(* init's prompt loop: for _ in 0..3 { prompt; store; auth_test }          *)
(***************************************************************************)
LoopPrompt ==
    /\ pc = "loop.prompt"
    /\ \E inp \in PromptInputs :
          LET r == prompt_for_token(inp) IN
          /\ trace' = Append(trace, E("prompt", "loop", r.tok, r.kind))
          /\ tok' = r.tok
          /\ pc' = IF r.ok THEN "loop.store" ELSE "done"
          /\ result' = IF r.ok THEN result ELSE Err(r.kind, "", 0)
    /\ UNCHANGED <<cmd, env, store, attempts, step, ens, info, protoVars>>

LoopStore ==
    /\ pc = "loop.store"
    /\ \E avail \in BOOLEAN :
          /\ store' = store_token(store, tok, avail)
          /\ trace' = Append(trace, E("write", "loop", tok,
                                      IF avail THEN "ok" ELSE "fail"))
          /\ pc' = IF avail THEN "loop.auth" ELSE "done"
          /\ result' = IF avail THEN result ELSE Err("store", "write", 0)
    /\ UNCHANGED <<cmd, env, tok, attempts, step, ens, info, protoVars>>

\* the loop matching `Ok(info)` without the guard `if info.ok`
loop_step_any_response(o, n) ==
    IF o.res = "ok"
    THEN [pc |-> "done", result |-> Ok("Saved valid token"), attempts |-> n]
    ELSE IF n + 1 < MaxAttempts
    THEN [pc |-> "loop.prompt", result |-> Running, attempts |-> n + 1]
    ELSE [pc |-> "done", attempts |-> n + 1,
          result |-> Err("credential", "Could not obtain a working token.", 0)]

\* the loop without `return Ok(())`: it goes on after a valid token
loop_step_no_return(o, n) ==
    IF n + 1 < MaxAttempts
    THEN [pc |-> "loop.prompt", result |-> Running, attempts |-> n + 1]
    ELSE IF o.res = "ok" /\ o.ok
    THEN [pc |-> "done", result |-> Ok("Saved valid token"), attempts |-> n + 1]
    ELSE [pc |-> "done", attempts |-> n + 1,
          result |-> Err("credential", "Could not obtain a working token.", 0)]

\* the loop with `auth_test(..)?`: a failed call ends the command
loop_step_call_fatal(o, n) ==
    IF o.res = "err"
    THEN [pc |-> "done", result |-> ErrOf(o), attempts |-> n]
    ELSE IF o.ok
    THEN [pc |-> "done", result |-> Ok("Saved valid token"), attempts |-> n]
    ELSE IF n + 1 < MaxAttempts
    THEN [pc |-> "loop.prompt", result |-> Running, attempts |-> n + 1]
    ELSE [pc |-> "done", attempts |-> n + 1,
          result |-> Err("credential", "Could not obtain a working token.", 0)]

\* the match on auth_test's result in iteration n (0-based) of the loop
loop_step(o, n) ==
    IF o.res = "ok" /\ o.ok
    THEN [pc |-> "done", result |-> Ok("Saved valid token"), attempts |-> n]
    ELSE IF n + 1 < MaxAttempts
    THEN [pc |-> "loop.prompt", result |-> Running, attempts |-> n + 1]
    ELSE [pc |-> "done", attempts |-> n + 1,
          result |-> Err("credential", "Could not obtain a working token.", 0)]

LoopAuth ==
    /\ pc = "loop.auth"
    /\ \E o \in AuthOutcomes :
          /\ trace' = Append(trace, E("auth", "loop", tok, AuthRes(o)))
          /\ pc' = loop_step(o, attempts).pc
          /\ result' = loop_step(o, attempts).result
          /\ attempts' = loop_step(o, attempts).attempts
          /\ info' = IF o.res = "ok" /\ o.ok THEN o ELSE info
    /\ UNCHANGED <<cmd, env, store, tok, step, ens, protoVars>>

(***************************************************************************)
(* Command handlers, after `let token = ensure_token()?`                   *)
(***************************************************************************)
\* whoami reporting ok:false as an API error, as ensure_token does
whoami_result_checked(o) ==
    IF o.res = "err" THEN ErrOf(o)
    ELSE IF o.ok THEN Ok("ok: true")
    ELSE invalid_error(o)

\* Commands::Whoami: let info = auth_test(&client, &token)?; println!(..); Ok(())
whoami_result(o) ==
    IF o.res = "err" THEN ErrOf(o)
    ELSE Ok(IF o.ok THEN "ok: true" ELSE "ok: false")

WhoamiAuth ==
    /\ pc = "whoami.auth"
    /\ \E o \in AuthOutcomes :
          /\ trace' = Append(trace, E("auth", "whoami", tok, AuthRes(o)))
          /\ result' = whoami_result(o)
          /\ info' = o
    /\ pc' = "done"
    /\ UNCHANGED <<cmd, env, store, tok, attempts, step, ens, protoVars>>

\* the slack_post calls a handler makes with `?`, in order
plan(name) ==
    CASE name = "join" -> <<"conversations.join">>
      [] name = "directmsgs" -> <<"conversations.list", "users.list">>
      [] name = "directmpmsgs" -> <<"conversations.list">>
      [] name = "findperson" -> <<"users.list", "conversations.list">>
      [] name = "open" -> <<"conversations.open">>
      [] name = "channels" -> <<"conversations.list">>
      [] name = "msgs" -> <<"conversations.history">>
      [] name = "send" -> <<"chat.postMessage">>

\* Commands::Send: the handler's own look at `ok` of the envelope
send_result(o) ==
    IF o.res = "err" THEN ErrOf(o)
    ELSE IF unwrap_or(as_bool(o.okv), "false") = "true" THEN Ok("sent ok")
    ELSE Err("api", unwrap_or(as_str(o.error), "unknown_error"), 0)

\* what a handler returns once its last call returned the envelope o
handler_result(name, o) == IF name = "send" THEN send_result(o) ELSE Ok(name)

HandlerPost ==
    /\ pc = "handler.post"
    /\ \E o \in PostOutcomes :
          /\ trace' = Append(trace, E("post", plan(cmd.name)[step + 1], tok,
                                      IF o.res = "ok" THEN "ok" ELSE o.kind))
          /\ step' = step + 1
          /\ IF o.res = "err"
             THEN pc' = "done" /\ result' = ErrOf(o)
             ELSE IF step + 1 < Len(plan(cmd.name))
             THEN pc' = "handler.post" /\ result' = result
             ELSE IF cmd.name = "open" /\ cmd.text
             THEN pc' = "open.text" /\ result' = result
             ELSE pc' = "done" /\ result' = handler_result(cmd.name, o)
    /\ UNCHANGED <<cmd, env, store, tok, attempts, ens, info, protoVars>>

\* Commands::Open: if let Some(text) = args.text { let _ = slack_post(..); } Ok(())
\* Commands::Open with `slack_post(..)?` for the message
open_result_checked(o) == IF o.res = "err" THEN ErrOf(o) ELSE Ok("open")

\* let _ = slack_post(..): the outcome o of the message is dropped
open_result(o) == Ok("open")

OpenText ==
    /\ pc = "open.text"
    /\ \E o \in PostOutcomes :
          /\ trace' = Append(trace, E("post", "chat.postMessage", tok,
                                      IF o.res = "ok" THEN "ok" ELSE o.kind))
          /\ result' = open_result(o)
    /\ pc' = "done"
    /\ UNCHANGED <<cmd, env, store, tok, attempts, step, ens, info, protoVars>>

Next ==
    \/ Main
    \/ InitReset
    \/ ForcePrompt
    \/ ForceStore
    \/ ForceAuth
    \/ EnsureEnv
    \/ EnsureRead
    \/ EnsureStoredAuth
    \/ EnsurePrompt
    \/ EnsureStore
    \/ EnsureAuth
    \/ LoopPrompt
    \/ LoopStore
    \/ LoopAuth
    \/ WhoamiAuth
    \/ HandlerPost
    \/ OpenText

Spec == Init /\ [][Next]_vars

(***************************************************************************)
(* The decoders on their own: any response, decoded by auth_test or by     *)
(* slack_post.                                                             *)
(***************************************************************************)
FlowIdle ==
    /\ cmd = Handler("whoami", FALSE)
    /\ env = NoArg
    /\ store = NoEntry
    /\ pc = "decode"
    /\ tok = <<>>
    /\ attempts = 0
    /\ step = 0
    /\ ens = NotReturned
    /\ info = NoInfo
    /\ trace = <<>>
    /\ result = Running

ProtoInit ==
    /\ FlowIdle
    /\ resp \in Responses
    /\ api = "none"
    /\ out = [res |-> "none"]

DecodeAuthTest ==
    /\ api = "none"
    /\ api' = "auth_test"
    /\ out' = auth_test(resp)
    /\ UNCHANGED <<resp, flowVars>>

DecodeSlackPost ==
    /\ api = "none"
    /\ api' = "slack_post"
    /\ out' = slack_post(resp)
    /\ UNCHANGED <<resp, flowVars>>

ProtoNext == DecodeAuthTest \/ DecodeSlackPost

ProtoSpec == ProtoInit /\ [][ProtoNext]_vars

(***************************************************************************)
(* The keyring helpers on their own: store_token or delete_token on any    *)
(* keyring content, then read_token (as the next invocation does).         *)
(***************************************************************************)
KeyringInit ==
    /\ cmd = Handler("whoami", FALSE)
    /\ env = NoArg
    /\ store \in StoreVals
    /\ pc = "keyring"
    /\ tok = <<>>
    /\ attempts = 0
    /\ step = 0
    /\ ens = NotReturned
    /\ info = NoInfo
    /\ trace = <<>>
    /\ result = Running
    /\ ProtoIdle

KeyringStore ==
    /\ pc = "keyring"
    /\ \E t \in Strs, avail \in BOOLEAN :
          /\ store' = store_token(store, t, avail)
          /\ tok' = t
          /\ trace' = Append(trace, E("write", "keyring", t,
                                      IF avail THEN "ok" ELSE "fail"))
    /\ pc' = "keyring.read"
    /\ UNCHANGED <<cmd, env, attempts, step, ens, info, result, protoVars>>

KeyringDelete ==
    /\ pc = "keyring"
    /\ \E avail \in BOOLEAN :
          /\ store' = delete_token(store, avail)
          /\ trace' = Append(trace, E("reset", "keyring", <<>>,
                                      IF avail THEN "ok" ELSE "fail"))
    /\ pc' = "keyring.read"
    /\ UNCHANGED <<cmd, env, tok, attempts, step, ens, info, result, protoVars>>

KeyringRead ==
    /\ pc = "keyring.read"
    /\ \E avail \in BOOLEAN :
          LET r == read_token(store, avail) IN
          trace' = Append(trace, E("read", "keyring", r.val.v,
                             IF ~r.ok THEN "fail"
                             ELSE IF r.val.some THEN "some" ELSE "none"))
    /\ pc' = "done"
    /\ UNCHANGED <<cmd, env, store, tok, attempts, step, ens, info, result,
                   protoVars>>

KeyringNext == KeyringStore \/ KeyringDelete \/ KeyringRead

KeyringSpec == KeyringInit /\ [][KeyringNext]_vars

(***************************************************************************)
(* Vocabulary of the properties.                                           *)
(***************************************************************************)
NumOps(op) == Cardinality({i \in DOMAIN trace : trace[i].op = op})

\* init --force or init --token: the force-set branch
ForcePath == cmd.name = "init" /\ (cmd.force \/ cmd.token.some)
\* init through ensure_token and the prompt loop
EnsureInit == cmd.name = "init" /\ ~ForcePath
IsHandler == cmd.name # "init"
\* SLACK_TOKEN is set and not blank
EnvApplies == env.some /\ trim(env.v) # <<>>

\* the call sites of ensure_token's external operations
EnsureSites == {"ensure", "ensure.stored", "ensure.entered"}
\* the call sites that validate a token that was entered or supplied
EnteredSites == {"ensure.entered", "force", "loop"}

IsOp(i, op, at, res) ==
    trace[i].op = op /\ trace[i].at = at /\ trace[i].res = res

(***************************************************************************)
(* C1: whenever SLACK_TOKEN is set and not blank, ensure_token returns the *)
(* trimmed value of the variable, and none of the operations of            *)
(* ensure_token (keyring read, keyring write, prompt, auth.test) happens.  *)
(***************************************************************************)
C1_EnvOverride ==
    EnvApplies =>
       /\ \A i \in DOMAIN trace : trace[i].at \notin EnsureSites
       /\ pc \notin {"ensure.read", "ensure.stored", "ensure.prompt",
                     "ensure.store", "ensure.auth", "loop.prompt",
                     "loop.store", "loop.auth"}
       /\ ens.st \in {"none", "ok"}
       /\ ens.st = "ok" => ens.tok = trim(env.v) /\ ens.src = "env"
       /\ (~ForcePath /\ pc \notin {"main", "init.reset", "ensure.env"})
             => ens.st = "ok"
       /\ (~ForcePath /\ ens.st = "ok") =>
             \A i \in DOMAIN trace : trace[i].op \in {"reset", "auth", "post"}
                                     /\ trace[i].at \notin {"force", "loop"}

\* a padded override is returned trimmed while the keyring holds a token
C1_Witness ==
    /\ EnvApplies
    /\ env.v # trim(env.v)
    /\ store.present /\ trim(store.v) # <<>>
    /\ ens = Returned(trim(env.v), "env")
    /\ cmd.name = "send"
    /\ pc = "done"

(***************************************************************************)
(* C2: in every flow that checks the stored token, an auth.test call on    *)
(* the stored token that itself fails ends the invocation with that error, *)
(* and no prompt happens afterwards.                                       *)
(***************************************************************************)
C2_StoredCheckErrorIsFatal ==
    \A i \in DOMAIN trace :
       IsOp(i, "auth", "ensure.stored", "callerr") =>
          /\ \A j \in DOMAIN trace : j > i => trace[j].op # "prompt"
          /\ pc = "done" => ~result.ok /\ result = ens.err
                            /\ result.kind \in {"transport", "http", "decode"}

(***************************************************************************)
(* C3: init without --force/--token and without an override runs at most  *)
(* 3 prompt-store-validate cycles in all, and gives up with "Could not     *)
(* obtain a working token." after exactly 3 cycles that failed.            *)
(***************************************************************************)
\* the prompt-store-validate cycles that ran to their auth.test call
Cycles ==
    {i \in DOMAIN trace : trace[i].op = "auth" /\ trace[i].at \in EnteredSites}

FailedCycles == {i \in Cycles : trace[i].res # "valid"}

C3_ThreeCycles ==
    (EnsureInit /\ ~EnvApplies) =>
       /\ Cardinality(Cycles) <= 3
       /\ result.kind = "credential" => Cardinality(FailedCycles) = 3

(***************************************************************************)
(* C4: in a command handler (the single-shot path), when the keyring has   *)
(* no secret or auth.test answered ok:false for the stored one, exactly    *)
(* one prompt happens; when auth.test answers ok:false for the entered     *)
(* token the invocation ends at once with the API's error code, or         *)
(* "invalid_auth" when it gave none: no second prompt, no further call.    *)
(***************************************************************************)
C4_SingleShot ==
    IsHandler =>
       /\ NumOps("prompt") <= 1
       /\ \A i \in DOMAIN trace :
             (/\ \/ IsOp(i, "read", "ensure", "none")
                 \/ IsOp(i, "auth", "ensure.stored", "invalid")
              /\ pc # "ensure.prompt")
             => /\ NumOps("prompt") = 1
                /\ i < Len(trace) /\ trace[i + 1].op = "prompt"
       /\ \A i \in DOMAIN trace :
             IsOp(i, "auth", "ensure.entered", "invalid") =>
                /\ i = Len(trace)
                /\ pc = "done"
                /\ NumOps("prompt") = 1
                /\ NumOps("auth") <= 2
                /\ NumOps("post") = 0
                /\ info.res = "ok" /\ ~info.ok
                /\ result.kind = "api" /\ ~result.ok
                /\ result.code = IF info.error.some THEN info.error.v
                                 ELSE "invalid_auth"

\* the stored token and then the entered one are rejected, the second
\* time without an error code
C4_Witness ==
    /\ cmd.name = "send"
    /\ Len(trace) = 5
    /\ IsOp(2, "auth", "ensure.stored", "invalid")
    /\ IsOp(5, "auth", "ensure.entered", "invalid")
    /\ ~info.error.some
    /\ result.code = "invalid_auth"
    /\ pc = "done"

(***************************************************************************)
(* C5: when auth.test answers ok:true for the stored token (no override),  *)
(* ensure_token returns exactly the stored string, without a prompt and    *)
(* without a keyring write.                                                *)
(***************************************************************************)
C5_StoredValid ==
    \A i \in DOMAIN trace :
       IsOp(i, "auth", "ensure.stored", "valid") =>
          /\ store.present
          /\ trace[i].tok = store.v
          /\ ens = Returned(store.v, "stored")
          /\ NumOps("prompt") = 0
          /\ NumOps("write") = 0
          /\ ~EnvApplies

\* a stored token with whitespace around it is returned as stored
C5_Witness ==
    /\ cmd.name = "send"
    /\ store.present /\ store.v # trim(store.v)
    /\ ens = Returned(store.v, "stored")
    /\ Len(trace) = 3
    /\ IsOp(2, "auth", "ensure.stored", "valid")
    /\ pc = "done" /\ result.ok

(***************************************************************************)
(* C6: init --force / init --token never reads the keyring, prompts at     *)
(* most once (never with --token), writes the supplied or prompted token   *)
(* once and then calls auth.test once on it; a rejected token ends the     *)
(* command at once.  (A failed prompt ends the command before the write,   *)
(* a failed write before the call.)                                        *)
(***************************************************************************)
C6_ForceSet ==
    ForcePath =>
       /\ NumOps("read") = 0
       /\ \A i \in DOMAIN trace : trace[i].at \in {"init", "force"}
       /\ NumOps("prompt") <= 1
       /\ cmd.token.some => NumOps("prompt") = 0
       /\ NumOps("write") <= 1
       /\ NumOps("auth") <= 1
       /\ \A i \in DOMAIN trace :
             trace[i].op = "write" =>
                /\ trace[i].tok = IF cmd.token.some THEN cmd.token.v ELSE tok
                /\ cmd.token.some \/ (i > 1 /\ IsOp(i - 1, "prompt", "force", "ok")
                                            /\ trace[i - 1].tok = trace[i].tok)
       /\ \A i \in DOMAIN trace :
             trace[i].op = "auth" =>
                /\ i = Len(trace)
                /\ pc = "done"
                /\ i > 1 /\ IsOp(i - 1, "write", "force", "ok")
                /\ trace[i - 1].tok = trace[i].tok
                /\ store = Secret(trace[i].tok)
                /\ result.ok <=> trace[i].res = "valid"
                /\ trace[i].res = "invalid" => result.kind = "api"
       /\ (pc = "done" /\ result.kind \notin {"io", "empty", "store"})
             => NumOps("write") = 1 /\ NumOps("auth") = 1

\* init --token (without --force) with a padded token that is rejected
\* while the keyring held another token
C6_Witness ==
    /\ cmd.name = "init" /\ cmd.token.some /\ ~cmd.force /\ ~cmd.reset
    /\ cmd.token.v # trim(cmd.token.v)
    /\ Len(trace) = 2
    /\ IsOp(2, "auth", "force", "invalid")
    /\ store = Secret(cmd.token.v)
    /\ pc = "done" /\ result.kind = "api"

(***************************************************************************)
(* C7: in every prompt cycle (ensure_token, force-set, init's loop) the    *)
(* token is written to the keyring before auth.test is called on it, so    *)
(* when its validation fails the keyring holds that token.                 *)
(***************************************************************************)
C7_StoredBeforeValidated ==
    \A i \in Cycles :
       /\ i > 1
       /\ trace[i - 1].op = "write" /\ trace[i - 1].res = "ok"
       /\ trace[i - 1].tok = trace[i].tok
       /\ (trace[i].res # "valid"
           /\ \A j \in DOMAIN trace : j > i => trace[j].op # "write")
          => store = Secret(trace[i].tok)

\* the second token entered in init's loop fails validation (the call
\* itself fails) and is what the keyring holds, not the first one
C7_Witness ==
    /\ EnsureInit
    /\ \E i \in Cycles :
          /\ i = Len(trace)
          /\ IsOp(i, "auth", "loop", "callerr")
          /\ store = Secret(trace[i].tok)
          /\ \E j \in Cycles : j < i /\ trace[j].tok # trace[i].tok

(***************************************************************************)
(* Vocabulary of the decoder properties.                                   *)
(***************************************************************************)
\* the response arrived whole with a status in the success range
Received == resp.net = "ok"
Success2xx == resp.status \in 200..299
\* the value an optional string field is read to
FieldOrNone(j) ==
    IF j.t = "str" THEN [some |-> TRUE, v |-> j.v] ELSE [some |-> FALSE, v |-> ""]

(***************************************************************************)
(* C8: for every response with a status outside the success range, both    *)
(* slack_post and auth_test fail with an HTTP status error that carries    *)
(* the status and the raw body, whatever the body is.                      *)
(***************************************************************************)
C8_HttpStatusError ==
    (api # "none" /\ Received /\ ~Success2xx) =>
       /\ out.res = "err"
       /\ out.kind = "http"
       /\ out.status = resp.status
       /\ out.body = resp.body

\* the same of auth_test alone
C8_AuthTestOnly ==
    (api = "auth_test" /\ Received /\ ~Success2xx) =>
       /\ out.res = "err"
       /\ out.kind = "http"
       /\ out.status = resp.status
       /\ out.body = resp.body

(***************************************************************************)
(* C9: slack_post returns an envelope only for a 2xx response whose body   *)
(* is JSON with `ok` the boolean true; for a 2xx JSON body whose `ok` is   *)
(* false, missing or no boolean it fails with an API error carrying the    *)
(* body's error code, or "unknown_error" when there is none; so the send   *)
(* handler succeeds on no other response.                                  *)
(***************************************************************************)
C9_ApiError ==
    api = "slack_post" =>
       LET b == resp.body
           decoded == Received /\ Success2xx /\ b.kind \in {"object", "array"}
           okTrue == b.kind = "object" /\ b.ok = JTrue
       IN  /\ out.res = "ok" <=> (decoded /\ okTrue)
           /\ out.res = "ok" => out.val = b
           /\ (decoded /\ ~okTrue) =>
                 /\ out.res = "err"
                 /\ out.kind = "api"
                 /\ out.code = IF b.kind = "object" /\ b.error.t = "str"
                               THEN b.error.v ELSE "unknown_error"
           /\ send_result(PostBrief(out)).ok <=> (decoded /\ okTrue)
           /\ (decoded /\ ~okTrue) =>
                 send_result(PostBrief(out)) = Err("api", out.code, 0)

\* {"error": "channel_not_found"} without `ok`, status 200
C9_Witness ==
    /\ api = "slack_post"
    /\ Received /\ resp.status = 200
    /\ resp.body.kind = "object"
    /\ resp.body.ok = JAbsent
    /\ resp.body.error = JStr("channel_not_found")
    /\ out.res = "err" /\ out.kind = "api" /\ out.code = "channel_not_found"

(***************************************************************************)
(* C10 as claimed: for every 2xx response whose body is a JSON object,     *)
(* auth_test returns an AuthTest, with each absent field (ok included)     *)
(* read as false/none; ok:false gives an AuthTest with ok = false.         *)
(***************************************************************************)
C10_AuthTestTolerant ==
    (api = "auth_test" /\ Received /\ Success2xx /\ resp.body.kind = "object") =>
       /\ out.res = "ok"
       /\ out.val.ok = (resp.body.ok = JTrue)
       /\ resp.body.team = JAbsent => out.val.team = FieldOrNone(JAbsent)
       /\ resp.body.team_id = JAbsent => out.val.team_id = FieldOrNone(JAbsent)
       /\ resp.body.user_id = JAbsent => out.val.user_id = FieldOrNone(JAbsent)
       /\ resp.body.bot_id = JAbsent => out.val.bot_id = FieldOrNone(JAbsent)
       /\ resp.body.error = JAbsent => out.val.error = FieldOrNone(JAbsent)

(***************************************************************************)
(* C10 as amended: for every 2xx response whose body is a JSON object,     *)
(* auth_test returns an AuthTest exactly when `ok` is a boolean and each   *)
(* of team, team_id, user_id, bot_id, error is absent, null or a string;   *)
(* then absent and null fields are none and ok:false gives an AuthTest     *)
(* with ok = false (no API error); otherwise it is a decode failure.       *)
(***************************************************************************)
C10_AuthTestDecode ==
    (api = "auth_test" /\ Received /\ Success2xx /\ resp.body.kind = "object") =>
       LET b == resp.body
           optional(j) == j.t \in {"absent", "null", "str"}
           typed == /\ b.ok \in {JTrue, JFalse}
                    /\ optional(b.team) /\ optional(b.team_id)
                    /\ optional(b.user_id) /\ optional(b.bot_id)
                    /\ optional(b.error)
       IN  /\ out.res = "ok" <=> typed
           /\ ~typed => out.res = "err" /\ out.kind = "decode"
           /\ typed =>
                 /\ out.val.ok = (b.ok = JTrue)
                 /\ out.val.team = FieldOrNone(b.team)
                 /\ out.val.team_id = FieldOrNone(b.team_id)
                 /\ out.val.user_id = FieldOrNone(b.user_id)
                 /\ out.val.bot_id = FieldOrNone(b.bot_id)
                 /\ out.val.error = FieldOrNone(b.error)

\* {"ok": false, "error": "channel_not_found", "bot_id": null}
C10_Witness ==
    /\ api = "auth_test"
    /\ Received /\ resp.status = 200
    /\ resp.body.kind = "object"
    /\ resp.body.ok = JFalse
    /\ resp.body.error = JStr("channel_not_found")
    /\ resp.body.bot_id = JNull
    /\ resp.body.team = JAbsent
    /\ out.res = "ok"
    /\ ~out.val.ok
    /\ out.val.error = FieldOrNone(JStr("channel_not_found"))
    /\ out.val.bot_id = FieldOrNone(JNull)

(***************************************************************************)
(* C11 as claimed: for every string t, store_token(t) followed by          *)
(* read_token yields t unchanged; delete_token followed by read_token      *)
(* yields None.                                                            *)
(***************************************************************************)
C11_RoundTrip ==
    (Len(trace) = 2 /\ trace[1].res = "ok" /\ trace[2].res # "fail") =>
       /\ trace[1].op = "write" =>
             IsOp(2, "read", "keyring", "some") /\ trace[2].tok = trace[1].tok
       /\ trace[1].op = "reset" => IsOp(2, "read", "keyring", "none")

(***************************************************************************)
(* C11 as amended: store_token(t) followed by read_token yields t          *)
(* unchanged (not trimmed) when t is not blank, and None when t is empty   *)
(* or whitespace only; delete_token followed by read_token yields None.    *)
(***************************************************************************)
C11_RoundTripNonBlank ==
    (Len(trace) = 2 /\ trace[1].res = "ok" /\ trace[2].res # "fail") =>
       /\ (trace[1].op = "write" /\ trim(trace[1].tok) # <<>>) =>
             IsOp(2, "read", "keyring", "some") /\ trace[2].tok = trace[1].tok
       /\ (trace[1].op = "write" /\ trim(trace[1].tok) = <<>>) =>
             IsOp(2, "read", "keyring", "none")
       /\ trace[1].op = "reset" => IsOp(2, "read", "keyring", "none")

\* a padded token written over another one is read back with its padding
C11_Witness ==
    /\ pc = "done"
    /\ Len(trace) = 2
    /\ IsOp(1, "write", "keyring", "ok")
    /\ trace[1].tok # trim(trace[1].tok) /\ trim(trace[1].tok) # <<>>
    /\ IsOp(2, "read", "keyring", "some")
    /\ trace[2].tok = trace[1].tok

(***************************************************************************)
(* C12: in init --reset the keyring entry is overwritten with "" before    *)
(* any keyring read, prompt or auth.test call of the invocation, so the    *)
(* token stored before is never read back nor sent to auth.test.           *)
(***************************************************************************)
C12_ResetFirst ==
    (cmd.name = "init" /\ cmd.reset) =>
       /\ trace # <<>> => trace[1].op = "reset" /\ trace[1].at = "init"
       /\ \A i \in DOMAIN trace :
             /\ i > 1 => trace[i].op # "reset"
             /\ ~IsOp(i, "read", "ensure", "some")
             /\ ~(trace[i].op = "auth" /\ trace[i].at = "ensure.stored")

\* the same when the overwrite itself succeeded
C12_ResetSucceeded ==
    (cmd.name = "init" /\ cmd.reset /\ trace # <<>> /\ trace[1].res = "ok") =>
       \A i \in DOMAIN trace :
          /\ ~IsOp(i, "read", "ensure", "some")
          /\ ~(trace[i].op = "auth" /\ trace[i].at = "ensure.stored")

(***************************************************************************)
(* Vocabulary of init's prompt loop.                                       *)
(***************************************************************************)
\* the validations made by the loop
LoopCycles == {i \in DOMAIN trace : trace[i].op = "auth" /\ trace[i].at = "loop"}
\* the iteration (1-based) in which operation i of the loop happened
Iteration(i) == Cardinality({j \in LoopCycles : j < i}) + 1
\* the loop was entered and the command ended before its last iteration ended
EndedEarly ==
    /\ pc = "done"
    /\ trace # <<>> /\ trace[Len(trace)].at = "loop"
    /\ ~(IsOp(Len(trace), "auth", "loop", "invalid") /\ Iteration(Len(trace)) = MaxAttempts)
    /\ ~(IsOp(Len(trace), "auth", "loop", "callerr") /\ Iteration(Len(trace)) = MaxAttempts)
\* a failed validation in the loop is not fatal: the next prompt follows
\* while attempts remain, and the terminal error after the last one
FailedAttemptContinues ==
    \A i \in LoopCycles :
       trace[i].res \in {"invalid", "callerr"} =>
          IF Iteration(i) < MaxAttempts
          THEN IF i = Len(trace)
               THEN pc = "loop.prompt" /\ result = Running
               ELSE trace[i + 1].op = "prompt" /\ trace[i + 1].at = "loop"
          ELSE /\ i = Len(trace)
               /\ pc = "done"
               /\ result.kind = "credential"

(***************************************************************************)
(* C13 as claimed: in init's loop a failed validation (ok:false or a       *)
(* failed call) does not end the command, the next prompt follows while    *)
(* attempts remain; the loop ends early only on a valid token, on an       *)
(* empty or blank prompt input, or on a failed keyring write.              *)
(***************************************************************************)
C13_LoopContinues ==
    /\ FailedAttemptContinues
    /\ EndedEarly =>
          \/ IsOp(Len(trace), "auth", "loop", "valid") /\ result.ok
          \/ IsOp(Len(trace), "prompt", "loop", "empty") /\ result.kind = "empty"
          \/ IsOp(Len(trace), "write", "loop", "fail") /\ result.kind = "store"

(***************************************************************************)
(* C13 as amended: the same, the loop also ending early when the prompt    *)
(* itself cannot be read.                                                  *)
(***************************************************************************)
C13_LoopContinuesOrPromptFails ==
    /\ FailedAttemptContinues
    /\ EndedEarly =>
          \/ IsOp(Len(trace), "auth", "loop", "valid") /\ result.ok
          \/ IsOp(Len(trace), "prompt", "loop", "empty") /\ result.kind = "empty"
          \/ IsOp(Len(trace), "prompt", "loop", "io") /\ result.kind = "io"
          \/ IsOp(Len(trace), "write", "loop", "fail") /\ result.kind = "store"

\* a failed call, then a rejected token, then the third prompt
C13_Witness ==
    /\ EnsureInit
    /\ pc = "loop.store"
    /\ Cardinality(LoopCycles) = 2
    /\ \E i, j \in LoopCycles :
          /\ i < j
          /\ trace[i].res = "callerr"
          /\ trace[j].res = "invalid"
    /\ IsOp(Len(trace), "prompt", "loop", "ok")
    /\ result = Running

(***************************************************************************)
(* C14: the open command ends as its conversations.open call ends: with    *)
(* --text one chat.postMessage is attempted, right after a successful      *)
(* open and only then, and whatever becomes of it the command succeeds;    *)
(* without --text, or when open failed, no chat.postMessage is attempted.  *)
(***************************************************************************)
Posts(method) == {i \in DOMAIN trace : trace[i].op = "post" /\ trace[i].at = method}

C14_OpenBestEffort ==
    cmd.name = "open" =>
       /\ Cardinality(Posts("conversations.open")) <= 1
       /\ Cardinality(Posts("chat.postMessage")) <= 1
       /\ \A i \in Posts("chat.postMessage") :
             /\ cmd.text
             /\ i > 1 /\ IsOp(i - 1, "post", "conversations.open", "ok")
             /\ i = Len(trace) /\ pc = "done"
       /\ \A i \in Posts("conversations.open") :
             /\ pc = "done" => (result.ok <=> trace[i].res = "ok")
             /\ (pc = "done" /\ trace[i].res # "ok") =>
                   result.kind = trace[i].res /\ i = Len(trace)
             /\ (pc = "done" /\ trace[i].res = "ok") =>
                   Cardinality(Posts("chat.postMessage")) = IF cmd.text THEN 1 ELSE 0

\* conversations.open succeeded, the message was rejected by the API, and
\* the command succeeded
C14_Witness ==
    /\ cmd.name = "open" /\ cmd.text
    /\ pc = "done"
    /\ Len(trace) >= 2
    /\ IsOp(Len(trace) - 1, "post", "conversations.open", "ok")
    /\ IsOp(Len(trace), "post", "chat.postMessage", "api")
    /\ result.ok

(***************************************************************************)
(* Commands::FindPerson on its own: the rows printed for a users map, a    *)
(* user -> DM map, a query and a limit.  Strings are sequences of          *)
(* characters.                                                             *)
(***************************************************************************)
MaxUsers == 3

Lower(c) ==
    CASE c = "J" -> "j"
      [] c = "O" -> "o"
      [] c = "B" -> "b"
      [] c = "U" -> "u"
      [] c = "D" -> "d"
      [] OTHER -> c

\* str::to_lowercase
to_lowercase(s) == [i \in DOMAIN s |-> Lower(s[i])]

\* str::contains
contains(s, q) ==
    \E k \in 0..Len(s) : k + Len(q) <= Len(s) /\ SubSeq(s, k + 1, k + Len(q)) = q

Digits == <<"1", "2", "3", "4", "5">>
Uids == {<<"U", Digits[i]>> : i \in 1..MaxUsers}

\* UserInfo = (display name, real name, email)
UserInfos ==
    {[disp |-> <<"J", "o">>, real |-> NoArg, email |-> NoArg],
     [disp |-> <<"b">>, real |-> Arg(<<"J", "O">>), email |-> NoArg],
     [disp |-> <<"b">>, real |-> NoArg, email |-> Arg(<<"o", "@">>)]}

\* HashMap<String, UserInfo> as fetch_users_map returns it
UserMaps(ids) == UNION {[S -> UserInfos] : S \in SUBSET ids}

\* user_to_dm: no DM at all, or one with every user
DmOf(u) == <<"D", u[2]>>
DmMaps(ids) == {[u \in S |-> DmOf(u)] : S \in {{}, ids}}

Queries == {<<>>, <<"j", "o">>, <<"J", "O">>, <<"o">>, <<"U", "1">>, <<"x">>}
Limits == 0..(MaxUsers + 1)

\* the orders in which users.iter() may yield the keys of the map
Orders(S) ==
    {o \in [1..Cardinality(S) -> S] : \A i, j \in DOMAIN o : o[i] = o[j] => i = j}

\* let inq = |s: &str| s.to_lowercase().contains(&q) on the four fields
matches(users, uid, q) ==
    LET user == users[uid]
        inq(s) == contains(to_lowercase(s), q)
    IN  \/ inq(user.disp)
        \/ inq(unwrap_or(user.real, <<>>))
        \/ inq(unwrap_or(user.email, <<>>))
        \/ inq(uid)

\* the tuple pushed to rows
row(users, dms, uid) ==
    [uid |-> uid,
     dm |-> IF uid \in DOMAIN dms THEN dms[uid] ELSE <<"-">>,
     atname |-> <<"@">> \o users[uid].disp,
     real |-> unwrap_or(users[uid].real, <<>>),
     email |-> unwrap_or(users[uid].email, <<>>)]

\* Vec::truncate
truncate(rows, n) == SubSeq(rows, 1, IF n < Len(rows) THEN n ELSE Len(rows))

\* the rows when the users are cut to the limit before they are filtered
find_rows_truncate_first(users, dms, query, limit, order) ==
    LET q == to_lowercase(query)
        keep(uid) == matches(users, uid, q)
        sel == SelectSeq(truncate(order, limit), keep)
    IN  [i \in DOMAIN sel |-> row(users, dms, sel[i])]

\* the rows printed: filter in iteration order, then rows.truncate(args.limit)
find_rows(users, dms, query, limit, order) ==
    LET q == to_lowercase(query)
        keep(uid) == matches(users, uid, q)
        sel == SelectSeq(order, keep)
    IN  truncate([i \in DOMAIN sel |-> row(users, dms, sel[i])], limit)

FindInputs(ids) ==
    [users : UserMaps(ids), dms : DmMaps(ids), query : Queries, limit : Limits]

FindInit ==
    /\ FlowIdle
    /\ resp \in FindInputs(Uids)
    /\ api = "none"
    /\ out = [res |-> "none"]

FindPerson ==
    /\ api = "none"
    /\ api' = "findperson"
    /\ \E order \in Orders(DOMAIN resp.users) :
          out' = [res |-> "ok",
                  rows |-> find_rows(resp.users, resp.dms, resp.query,
                                     resp.limit, order)]
    /\ UNCHANGED <<resp, flowVars>>

FindSpec == FindInit /\ [][FindPerson]_vars

(***************************************************************************)
(* C15: find-person filters before it truncates: every printed row is a    *)
(* user whose display name, real name, email or id contains the query      *)
(* without regard to case, no user is printed twice, and the number of     *)
(* rows is min(limit, number of matching users).                           *)
(***************************************************************************)
\* s contains q without regard to case
ContainsNoCase(s, q) == contains(to_lowercase(s), to_lowercase(q))

Matching ==
    {u \in DOMAIN resp.users :
        \/ ContainsNoCase(resp.users[u].disp, resp.query)
        \/ resp.users[u].real.some /\ ContainsNoCase(resp.users[u].real.v, resp.query)
        \/ resp.users[u].email.some /\ ContainsNoCase(resp.users[u].email.v, resp.query)
        \/ ContainsNoCase(u, resp.query)}

C15_FilterThenTruncate ==
    api = "findperson" =>
       /\ \A i \in DOMAIN out.rows : out.rows[i].uid \in Matching
       /\ \A i, j \in DOMAIN out.rows : out.rows[i].uid = out.rows[j].uid => i = j
       /\ Len(out.rows) = IF resp.limit < Cardinality(Matching)
                          THEN resp.limit ELSE Cardinality(Matching)

\* three users of whom two match "JO" (one by display name, one by real
\* name, in another case), limit 2: both are printed
C15_Witness ==
    /\ api = "findperson"
    /\ resp.query = <<"J", "O">>
    /\ resp.limit = 2
    /\ Cardinality(DOMAIN resp.users) = 3
    /\ Cardinality(Matching) = 2
    /\ Len(out.rows) = 2
    /\ \E i \in DOMAIN out.rows : out.rows[i].real = <<"J", "O">>
    /\ \E i \in DOMAIN out.rows : out.rows[i].atname = <<"@", "J", "o">>

(***************************************************************************)
(* Commands::Channels on its own: the lines printed for the `channels`     *)
(* value of a conversations.list envelope.  A conversation is a JSON       *)
(* object given by the values of the keys the handler inspects.            *)
(***************************************************************************)
MaxChans == 2

\* sequences over S of length at most n
RECURSIVE SeqsUpTo(_, _)
SeqsUpTo(S, n) ==
    IF n = 0 THEN {<<>>}
    ELSE LET shorter == SeqsUpTo(S, n - 1)
         IN  shorter \cup {Append(s, x) : s \in {t \in shorter : Len(t) = n - 1}, x \in S}

ChannelNames ==
    {[id |-> JStr("C1"), name |-> JStr("general"), name_normalized |-> JAbsent],
     [id |-> JStr("D1"), name |-> JAbsent, name_normalized |-> JAbsent],
     [id |-> JAbsent, name |-> JNull, name_normalized |-> JStr("g-n")]}

ChannelFlags ==
    [is_im : {JAbsent, JTrue, JStr("true")},
     is_mpim : {JFalse, JTrue},
     is_private : {JTrue, JNum}]

Channels ==
    {[id |-> n.id, name |-> n.name, name_normalized |-> n.name_normalized,
      is_im |-> f.is_im, is_mpim |-> f.is_mpim, is_private |-> f.is_private] :
        n \in ChannelNames, f \in ChannelFlags}

\* resp.get("channels"): absent, no array, or an array of conversations
ChannelsValues(n) ==
    {[t |-> "absent", items |-> <<>>], [t |-> "str", items |-> <<>>]}
    \cup [t : {"array"}, items : SeqsUpTo(Channels, n)]

\* .and_then(|v| v.as_array()).cloned().unwrap_or_default()
as_array_or_default(v) == IF v.t = "array" THEN v.items ELSE <<>>

\* the flag read as a bool: .and_then(|v| v.as_bool()).unwrap_or(false)
flag(j) == unwrap_or(as_bool(j), "false") = "true"

\* the tag with is_private looked at first
ctype_private_first(ch) ==
    IF flag(ch.is_private) THEN "private_channel"
    ELSE IF flag(ch.is_im) THEN "im"
    ELSE IF flag(ch.is_mpim) THEN "mpim"
    ELSE "public_channel"

\* let ctype = if is_im { "im" } else if is_mpim { .. } else if is_private { .. }
ctype(ch) ==
    IF flag(ch.is_im) THEN "im"
    ELSE IF flag(ch.is_mpim) THEN "mpim"
    ELSE IF flag(ch.is_private) THEN "private_channel"
    ELSE "public_channel"

\* name, or else name_normalized, or else the placeholder
channel_name(ch) ==
    IF as_str(ch.name).some THEN as_str(ch.name).v
    ELSE unwrap_or(as_str(ch.name_normalized), "(dm or unnamed)")

\* println!("{id}\t#{name}\t({ctype})")
channel_line(ch) ==
    [id |-> unwrap_or(as_str(ch.id), "-"),
     name |-> channel_name(ch),
     ctype |-> ctype(ch)]

channels_lines(v) ==
    LET chans == as_array_or_default(v)
    IN  [i \in DOMAIN chans |-> channel_line(chans[i])]

ChannelsInit ==
    /\ FlowIdle
    /\ resp \in ChannelsValues(MaxChans)
    /\ api = "none"
    /\ out = [res |-> "none"]

ChannelsList ==
    /\ api = "none"
    /\ api' = "channels"
    /\ out' = [res |-> "ok", lines |-> channels_lines(resp)]
    /\ UNCHANGED <<resp, flowVars>>

ChannelsSpec == ChannelsInit /\ [][ChannelsList]_vars

(***************************************************************************)
(* C16: the channels command prints one line per conversation, tagged by   *)
(* the first rule that applies among is_im -> "im", is_mpim -> "mpim",     *)
(* is_private -> "private_channel", else "public_channel" (a flag that is  *)
(* absent or no boolean counts as false), and with the name                *)
(* "(dm or unnamed)" when neither name nor name_normalized is present.     *)
(***************************************************************************)
IsTrue(j) == j = JTrue

C16_ChannelTags ==
    api = "channels" =>
       /\ Len(out.lines) = IF resp.t = "array" THEN Len(resp.items) ELSE 0
       /\ \A i \in DOMAIN out.lines :
             LET ch == resp.items[i]
                 line == out.lines[i]
             IN  /\ IsTrue(ch.is_im) => line.ctype = "im"
                 /\ (~IsTrue(ch.is_im) /\ IsTrue(ch.is_mpim)) => line.ctype = "mpim"
                 /\ (~IsTrue(ch.is_im) /\ ~IsTrue(ch.is_mpim) /\ IsTrue(ch.is_private))
                       => line.ctype = "private_channel"
                 /\ (~IsTrue(ch.is_im) /\ ~IsTrue(ch.is_mpim) /\ ~IsTrue(ch.is_private))
                       => line.ctype = "public_channel"
                 /\ (ch.name = JAbsent /\ ch.name_normalized = JAbsent)
                       => line.name = "(dm or unnamed)"

\* a public channel, then an im without a name that is also private
C16_Witness ==
    /\ api = "channels"
    /\ Len(out.lines) = 2
    /\ out.lines[1] = [id |-> "C1", name |-> "general", ctype |-> "public_channel"]
    /\ resp.items[1].is_im = JStr("true")
    /\ out.lines[2] = [id |-> "D1", name |-> "(dm or unnamed)", ctype |-> "im"]
    /\ resp.items[2].is_private = JTrue

(***************************************************************************)
(* Commands::Msgs on its own: the lines printed for the `messages` value   *)
(* of a conversations.history envelope.                                    *)
(***************************************************************************)
MaxMsgs == 3

Messages ==
    [ts : {JStr("1.0"), JStr("2.0"), JAbsent},
     user : {JStr("U1"), JAbsent},
     bot_id : {JStr("B1"), JAbsent},
     text : {JStr("hi")}]

\* resp.get("messages"): absent, no array, or an array of messages
MessagesValues(n) ==
    {[t |-> "absent", items |-> <<>>], [t |-> "str", items |-> <<>>]}
    \cup [t : {"array"}, items : SeqsUpTo(Messages, n)]

\* Iterator::rev
rev(s) == [i \in DOMAIN s |-> s[Len(s) + 1 - i]]

\* println!("{ts} {user}: {text}")
message_line(m) ==
    [ts |-> unwrap_or(as_str(m.ts), "-"),
     user |-> IF as_str(m.user).some THEN as_str(m.user).v
              ELSE unwrap_or(as_str(m.bot_id), "unknown"),
     text |-> unwrap_or(as_str(m.text), "")]

\* the lines printed in the order of the array
msgs_lines_in_order(v) ==
    LET msgs == as_array_or_default(v)
    IN  [i \in DOMAIN msgs |-> message_line(msgs[i])]

\* for m in msgs.iter().rev() { println!(..) }
msgs_lines(v) ==
    LET msgs == rev(as_array_or_default(v))
    IN  [i \in DOMAIN msgs |-> message_line(msgs[i])]

MsgsInit ==
    /\ FlowIdle
    /\ resp \in MessagesValues(MaxMsgs)
    /\ api = "none"
    /\ out = [res |-> "none"]

MsgsHistory ==
    /\ api = "none"
    /\ api' = "msgs"
    /\ out' = [res |-> "ok", lines |-> msgs_lines(resp)]
    /\ UNCHANGED <<resp, flowVars>>

MsgsSpec == MsgsInit /\ [][MsgsHistory]_vars

(***************************************************************************)
(* C17: the msgs command prints one line per message of the `messages`     *)
(* array, in exactly the reverse of the array's order: line i is the line  *)
(* of message n + 1 - i, none dropped, none printed twice.                 *)
(***************************************************************************)
C17_ReverseOrder ==
    api = "msgs" =>
       LET n == IF resp.t = "array" THEN Len(resp.items) ELSE 0
       IN  /\ Len(out.lines) = n
           /\ \A i \in 1..n : out.lines[i] = message_line(resp.items[n + 1 - i])

\* newest first in the array (ts 2.0 then 1.0), oldest first in the output
C17_Witness ==
    /\ api = "msgs"
    /\ Len(resp.items) = 3
    /\ resp.items[1].ts = JStr("2.0") /\ resp.items[2].ts = JStr("1.0")
    /\ resp.items[3].ts = JAbsent
    /\ out.lines[1].ts = "-" /\ out.lines[2].ts = "1.0" /\ out.lines[3].ts = "2.0"
    /\ out.lines[3].user = "B1"

(***************************************************************************)
(* C18: a keyring read or write that fails (other than with "no entry")    *)
(* is fatal in every flow: it is the last operation of the invocation,     *)
(* which fails with the keyring error; it is never followed by a prompt.   *)
(***************************************************************************)
StoreFailures ==
    {i \in DOMAIN trace : trace[i].op \in {"read", "write", "reset"}
                          /\ trace[i].res = "fail"}

C18_StoreErrorsFatal ==
    \A i \in StoreFailures :
       /\ i = Len(trace)
       /\ pc = "done"
       /\ ~result.ok
       /\ result.kind = "store"

\* the same of the command handlers alone
C18_HandlerStoreErrorsFatal ==
    IsHandler =>
       \A i \in StoreFailures :
          /\ i = Len(trace)
          /\ pc = "done"
          /\ ~result.ok
          /\ result.kind = "store"

(***************************************************************************)
(* C19: a token is never empty after validation: every token that          *)
(* ensure_token returns or that init reports as saved and valid is not     *)
(* blank, and no blank token is ever written to the keyring as a           *)
(* credential or sent to auth.test or to another method.                   *)
(***************************************************************************)
Blank(s) == trim(s) = <<>>

C19_NeverEmpty ==
    /\ ens.st = "ok" => ~Blank(ens.tok)
    /\ (cmd.name = "init" /\ pc = "done" /\ result.ok) => ~Blank(tok)
    /\ \A i \in DOMAIN trace :
          /\ IsOp(i, "write", trace[i].at, "ok") => ~Blank(trace[i].tok)
          /\ trace[i].op \in {"auth", "post"} => ~Blank(trace[i].tok)

\* the same of every flow but init --token
C19_NeverEmptyWithoutTokenFlag ==
    ~(cmd.name = "init" /\ cmd.token.some) =>
       /\ ens.st = "ok" => ~Blank(ens.tok)
       /\ (cmd.name = "init" /\ pc = "done" /\ result.ok) => ~Blank(tok)
       /\ \A i \in DOMAIN trace :
             /\ IsOp(i, "write", trace[i].at, "ok") => ~Blank(trace[i].tok)
             /\ trace[i].op \in {"auth", "post"} => ~Blank(trace[i].tok)

(***************************************************************************)
(* C20 as claimed: all API requests of one invocation (auth.test and       *)
(* method calls) carry the same token string.                              *)
(***************************************************************************)
Requests == {i \in DOMAIN trace : trace[i].op \in {"auth", "post"}}
\* the auth.test calls that validate a candidate token
Validations == {i \in Requests : trace[i].op = "auth" /\ trace[i].at # "whoami"}

C20_OneToken ==
    \A i, j \in Requests : trace[i].tok = trace[j].tok

(***************************************************************************)
(* C20 as amended: the requests a handler makes after ensure_token has     *)
(* returned all carry the token it returned; once a candidate has been     *)
(* validated successfully every later request carries it and no other      *)
(* candidate is validated; only while candidates are rejected or cannot    *)
(* be checked may successive validations carry different tokens.           *)
(***************************************************************************)
C20_OneActiveToken ==
    /\ \A i \in Requests \ Validations :
          ens.st = "ok" /\ trace[i].tok = ens.tok
    /\ \A i \in Validations :
          trace[i].res = "valid" =>
             /\ \A j \in Requests : j > i => trace[j].tok = trace[i].tok
             /\ ~\E j \in Validations : j > i
             /\ ens.st = "ok" => ens.tok = trace[i].tok
             /\ (cmd.name = "init" /\ pc = "done") => result.ok /\ tok = trace[i].tok

\* find-person: the stored token is rejected, the entered one is accepted
\* and both method calls carry the entered one
C20_Witness ==
    /\ cmd.name = "findperson"
    /\ pc = "done" /\ result.ok
    /\ Len(trace) = 7
    /\ IsOp(2, "auth", "ensure.stored", "invalid")
    /\ IsOp(5, "auth", "ensure.entered", "valid")
    /\ trace[2].tok # trace[5].tok
    /\ IsOp(6, "post", "users.list", "ok") /\ trace[6].tok = trace[5].tok
    /\ IsOp(7, "post", "conversations.list", "ok") /\ trace[7].tok = trace[5].tok

(***************************************************************************)
(* C21: whenever ensure_token returns a token that is not the SLACK_TOKEN  *)
(* override, the keyring holds exactly the returned string; when it is     *)
(* the stored token that validated, ensure_token wrote nothing to the      *)
(* keyring.                                                                *)
(***************************************************************************)
EnsureWrites == {i \in DOMAIN trace : trace[i].op = "write" /\ trace[i].at \in EnsureSites}

C21_StoreHoldsReturned ==
    (ens.st = "ok" /\ ens.src # "env") =>
       /\ store = Secret(ens.tok)
       /\ ens.src \in {"stored", "entered"}
       /\ ens.src = "stored" => EnsureWrites = {}
       /\ ens.src = "entered" =>
             \E i \in EnsureWrites : IsOp(i, "write", "ensure", "ok")
                                     /\ trace[i].tok = ens.tok

\* the stored token is rejected and replaced by the entered one, which is
\* returned
C21_Witness ==
    /\ IsHandler
    /\ ens.st = "ok" /\ ens.src = "entered"
    /\ IsOp(1, "read", "ensure", "some")
    /\ trace[1].tok # ens.tok
    /\ store = Secret(ens.tok)

(***************************************************************************)
(* ensure_token on its own: from its call by a command handler or by init  *)
(* (without --force/--token) to its return.  Every external call returns,  *)
(* with a result or an error, which is what the fairness condition says.   *)
(***************************************************************************)
EnsureCallers ==
    {c \in Cmds : c.name = "init" => ~(c.force \/ c.token.some)}

EnsureTokenInit ==
    /\ cmd \in EnsureCallers
    /\ env \in EnvVals
    /\ store \in StoreVals
    /\ pc = "ensure.env"
    /\ tok = <<>>
    /\ attempts = 0
    /\ step = 0
    /\ ens = NotReturned
    /\ info = NoInfo
    /\ trace = <<>>
    /\ result = Running
    /\ ProtoIdle

EnsureTokenNext ==
    \/ EnsureEnv
    \/ EnsureRead
    \/ EnsureStoredAuth
    \/ EnsurePrompt
    \/ EnsureStore
    \/ EnsureAuth

EnsureTokenSpec ==
    EnsureTokenInit /\ [][EnsureTokenNext]_vars /\ WF_vars(EnsureTokenNext)

(***************************************************************************)
(* C22: ensure_token always returns, and its external operations happen    *)
(* only in the order keyring read, auth.test on the stored token, prompt,  *)
(* keyring write, auth.test on the entered token, each at most once; a     *)
(* step that ends the call is followed by no other.                        *)
(***************************************************************************)
\* the place of an operation of ensure_token in that order
Rank(e) ==
    CASE e.op = "read" -> 1
      [] e.op = "auth" /\ e.at = "ensure.stored" -> 2
      [] e.op = "prompt" -> 3
      [] e.op = "write" -> 4
      [] e.op = "auth" /\ e.at = "ensure.entered" -> 5
      [] OTHER -> 0

\* the outcome of operation e makes ensure_token return
EndsCall(e) ==
    \/ e.op = "read" /\ e.res = "fail"
    \/ e.op = "auth" /\ e.at = "ensure.stored" /\ e.res \in {"valid", "callerr"}
    \/ e.op = "prompt" /\ e.res # "ok"
    \/ e.op = "write" /\ e.res = "fail"
    \/ e.op = "auth" /\ e.at = "ensure.entered"

InEnsureToken ==
    pc \in {"ensure.env", "ensure.read", "ensure.stored", "ensure.prompt",
            "ensure.store", "ensure.auth"}

EnsureOrder ==
    /\ \A i \in DOMAIN trace : trace[i].at \in EnsureSites /\ Rank(trace[i]) > 0
    /\ \A i, j \in DOMAIN trace : i < j => Rank(trace[i]) < Rank(trace[j])
    /\ \A i \in DOMAIN trace :
          /\ Rank(trace[i]) = 2 => i > 1 /\ IsOp(i - 1, "read", "ensure", "some")
          /\ Rank(trace[i]) = 3 => (i > 1 => Rank(trace[i - 1]) \in {1, 2})
          /\ Rank(trace[i]) = 4 => i > 1 /\ IsOp(i - 1, "prompt", "ensure", "ok")
          /\ Rank(trace[i]) = 5 => i > 1 /\ IsOp(i - 1, "write", "ensure", "ok")
          /\ EndsCall(trace[i]) => i = Len(trace) /\ ens.st # "none"
    /\ ens.st = "none" <=> InEnsureToken

C22_TerminatesInOrder ==
    /\ []EnsureOrder
    /\ <>(ens.st # "none")

\* all five operations happened, in order, and ensure_token returned
C22_Witness ==
    /\ Len(trace) = 5
    /\ IsOp(1, "read", "ensure", "some")
    /\ IsOp(2, "auth", "ensure.stored", "invalid")
    /\ IsOp(3, "prompt", "ensure", "ok")
    /\ IsOp(4, "write", "ensure", "ok")
    /\ IsOp(5, "auth", "ensure.entered", "valid")
    /\ ens = Returned(trace[5].tok, "entered")
    /\ ~InEnsureToken

(***************************************************************************)
(* C23: init without --force/--token succeeds only if SLACK_TOKEN gave a   *)
(* token that is not blank (and then no auth.test call was made), or an    *)
(* auth.test call of the invocation answered ok:true for the token that    *)
(* the keyring holds when init returns.                                    *)
(***************************************************************************)
C23_InitSuccess ==
    (EnsureInit /\ pc = "done" /\ result.ok) =>
       \/ EnvApplies /\ NumOps("auth") = 0 /\ ens = Returned(trim(env.v), "env")
       \/ /\ ~EnvApplies
          /\ \E i \in DOMAIN trace :
                /\ trace[i].op = "auth" /\ trace[i].res = "valid"
                /\ store = Secret(trace[i].tok)

\* the stored token is rejected and a token entered in the second iteration
\* of the loop validates: it is the one the keyring holds
C23_Witness ==
    /\ EnsureInit /\ ~EnvApplies
    /\ pc = "done" /\ result.ok
    /\ Cardinality(LoopCycles) = 2
    /\ IsOp(Len(trace), "auth", "loop", "valid")
    /\ store = Secret(trace[Len(trace)].tok)
    /\ \E i \in DOMAIN trace :
          IsOp(i, "auth", "ensure.stored", "invalid")
          /\ trace[i].tok # trace[Len(trace)].tok

(***************************************************************************)
(* C24: whoami fails exactly when ensure_token fails or its own auth.test  *)
(* call fails (transport, HTTP status, decode); when that call answers     *)
(* ok:false the identity is printed and the command succeeds.              *)
(***************************************************************************)
WhoamiCalls == {i \in DOMAIN trace : trace[i].op = "auth" /\ trace[i].at = "whoami"}

C24_WhoamiOutcome ==
    (cmd.name = "whoami" /\ pc = "done") =>
       /\ Cardinality(WhoamiCalls) <= 1
       /\ ~result.ok <=> \/ ens.st = "err"
                         \/ \E i \in WhoamiCalls : trace[i].res = "callerr"
       /\ ens.st = "err" => WhoamiCalls = {} /\ result = ens.err
       /\ \A i \in WhoamiCalls :
             /\ i = Len(trace)
             /\ ens.st = "ok" /\ trace[i].tok = ens.tok
             /\ trace[i].res = "callerr" =>
                   result.kind \in {"transport", "http", "decode"}
             /\ trace[i].res = "invalid" => result = Ok("ok: false")
             /\ trace[i].res = "valid" => result = Ok("ok: true")

\* under the override the only request is whoami's auth.test, which answers
\* ok:false, and the command succeeds
C24_Witness ==
    /\ cmd.name = "whoami"
    /\ EnvApplies
    /\ pc = "done"
    /\ Len(trace) = 1
    /\ IsOp(1, "auth", "whoami", "invalid")
    /\ info.res = "ok" /\ ~info.ok
    /\ result.ok

====
